---- MODULE Spec2Model ----
(***************************************************************************)
(* A model of src/main.py, the LinkedIn follower / post pipeline:          *)
(* parse_int, the feed fetcher, the append-and-dedupe merge, the metric    *)
(* enrichment with its metric extraction, the daily follower aggregation   *)
(* and the run of __main__, once and run after run.                        *)
(*                                                                         *)
(* Strings the code inspects character by character (the argument of       *)
(* parse_int, article links) are sequences of one-character strings.       *)
(* None / NaN / pd.NA in a numeric position is NULL (-1); counts are >= 0. *)
(***************************************************************************)
EXTENDS Integers, Sequences, FiniteSets, TLC

VARIABLES
    text,        \* parse_int: the argument, [none |-> BOOLEAN, s |-> Seq(char)]
    parsed,      \* parse_int: the outcome (an integer, NULL, ValueError) or NotRun
    pc,          \* the statement of __main__ (or of the function under study) to run next
    error,       \* the exception that ended the run, "" when none did
    followers_csv,       \* FOLLOWERS_CSV: rows [timestamp, followers], <<>> when absent
    followers_daily_csv, \* FOLLOWERS_DAILY_CSV: rows [date, followers, new_followers]
    attempt,     \* try_company_updates_calls: index of the candidate tried next
    shape,       \* fetch_posts_all_pages: index of the paginated candidate in use
    page_i,      \* fetch_posts_all_pages: i, the page requested next
    got_any,     \* fetch_posts_all_pages: got_any of the shape in use
    all_posts,   \* fetch_posts_all_pages: all_posts
    calls,       \* the feed requests of this fetch: [kind, shape, start, got]
    posts_csv,   \* POSTS_CSV: [link_col, rows], rows = <<>> when the file is absent
    store0,      \* POSTS_CSV as it was when the run (or the function studied) began
    max_to_enrich,  \* enrich_posts_metrics: the parameter max_to_enrich
    df,          \* enrich_posts_metrics: the rows of df
    need,        \* enrich_posts_metrics: the index labels of need, in order
    pos,         \* enrich_posts_metrics: position in need of the row handled next
    updated,     \* enrich_posts_metrics: updated
    events,      \* enrich_posts_metrics: its fetches, sleeps and file write, in order
    channel_summary_csv, \* CHANNEL_SUMMARY_CSV: its one row, <<>> when absent
    now,         \* the clock, in ticks
    run_no,      \* the number of the run of __main__
    followers    \* __main__: followers, the outcome of fetch_followers(), or NotRun

parseVars == <<text, parsed>>

followerVars == <<followers_csv, followers_daily_csv>>

fetchVars == <<attempt, shape, page_i, got_any, all_posts, calls>>

enrichVars == <<max_to_enrich, df, need, pos, updated, events>>

vars == <<text, parsed, pc, error, followers_csv, followers_daily_csv,
          attempt, shape, page_i, got_any, all_posts, calls,
          posts_csv, store0, max_to_enrich, df, need, pos, updated, events,
          channel_summary_csv, now, run_no, followers>>

mainVars == <<channel_summary_csv, now, run_no, followers>>

----------------------------------------------------------------------------
(* Values *)

NULL == -1

ValueError == -2

NotRun == ValueError - 1

(* Bounds *)

MaxLen == 5

MaxLog == 4

MaxTime == 5

MaxRows == 2

MaxLinks == 2

MaxRuns == 2

MaxBatch == 1

\* the clock ticks of one calendar day (timestamps are whole ticks)
TicksPerDay == 2

----------------------------------------------------------------------------
(* parse_int, src/main.py:42-54 *)

Digits == {"0", "1", "2", "3", "4", "5", "6", "7", "8", "9"}

DigitVal(c) ==
    CASE c = "0" -> 0 [] c = "1" -> 1 [] c = "2" -> 2 [] c = "3" -> 3
      [] c = "4" -> 4 [] c = "5" -> 5 [] c = "6" -> 6 [] c = "7" -> 7
      [] c = "8" -> 8 [] c = "9" -> 9

RECURSIVE Pow10(_)
Pow10(n) == IF n = 0 THEN 1 ELSE 10 * Pow10(n - 1)

\* the value of a run of decimal digits (0 for the empty run)
RECURSIVE DigitsVal(_)
DigitsVal(s) ==
    IF s = <<>> THEN 0
    ELSE 10 * DigitsVal(SubSeq(s, 1, Len(s) - 1)) + DigitVal(s[Len(s)])

CountOf(s, c) == Cardinality({i \in 1..Len(s) : s[i] = c})

\* str.replace(",", "")
RemoveCommas(s) == SelectSeq(s, LAMBDA c : c # ",")

\* str.strip()
RECURSIVE Strip(_)
Strip(s) ==
    IF s = <<>> THEN s
    ELSE IF s[1] = " " THEN Strip(Tail(s))
    ELSE IF s[Len(s)] = " " THEN Strip(SubSeq(s, 1, Len(s) - 1))
    ELSE s

LowerChar(c) ==
    CASE c = "K" -> "k" [] c = "M" -> "m" [] c = "A" -> "a" [] OTHER -> c

\* str.lower()
Lower(s) == [i \in 1..Len(s) |-> LowerChar(s[i])]

\* line 45: s = str(text).replace(",", "").strip().lower()
Normalize(s) == Lower(Strip(RemoveCommas(s)))

AllDigits(s) == s # <<>> /\ \A i \in 1..Len(s) : s[i] \in Digits

DotAt(s) == CHOOSE i \in 1..Len(s) : s[i] = "."

\* \d+(\.\d+)?
IsDecimal(s) ==
    \/ AllDigits(s)
    \/ /\ CountOf(s, ".") = 1
       /\ AllDigits(SubSeq(s, 1, DotAt(s) - 1))
       /\ AllDigits(SubSeq(s, DotAt(s) + 1, Len(s)))

HasSuffix(s) == s # <<>> /\ s[Len(s)] \in {"k", "m"}

\* group(1) of the strict pattern
StrictNum(s) == IF HasSuffix(s) THEN SubSeq(s, 1, Len(s) - 1) ELSE s

\* line 46: re.match(r"^(\d+(\.\d+)?)([km])?$", s)
StrictMatch(s) == IsDecimal(StrictNum(s))

Multiplier(s) ==
    IF ~HasSuffix(s) THEN 1
    ELSE IF s[Len(s)] = "k" THEN 1000 ELSE 1000000

\* lines 48-52: int(float(num) * multiplier), on the exact decimal value
ScaledInt(num, mult) ==
    IF AllDigits(num) THEN DigitsVal(num) * mult
    ELSE LET d == DotAt(num)
             ip == SubSeq(num, 1, d - 1)
             fp == SubSeq(num, d + 1, Len(num))
         IN ((DigitsVal(ip) * Pow10(Len(fp)) + DigitsVal(fp)) * mult)
                \div Pow10(Len(fp))

HasDigit(s) == \E i \in 1..Len(s) : s[i] \in Digits

FirstDigit(s) == CHOOSE i \in 1..Len(s) :
    s[i] \in Digits /\ \A j \in 1..(i - 1) : s[j] \notin Digits

\* the longest prefix of s made of digits and '.'
RECURSIVE NumRun(_)
NumRun(s) ==
    IF s = <<>> \/ s[1] \notin (Digits \cup {"."}) THEN <<>>
    ELSE <<s[1]>> \o NumRun(Tail(s))

\* line 53: re.search(r"(\d[\d\.]*)", s).group(1)
SearchRun(s) == NumRun(SubSeq(s, FirstDigit(s), Len(s)))

\* int(float(run)) for a run of digits and '.' that starts with a digit:
\* float() raises ValueError when the run holds more than one '.'
IntOfFloat(run) ==
    IF CountOf(run, ".") > 1 THEN ValueError
    ELSE IF CountOf(run, ".") = 0 THEN DigitsVal(run)
    ELSE DigitsVal(SubSeq(run, 1, DotAt(run) - 1))

parse_int(t) ==
    IF t.none THEN NULL
    ELSE LET s == Normalize(t.s) IN
         IF StrictMatch(s) THEN ScaledInt(StrictNum(s), Multiplier(s))
         ELSE IF HasDigit(s) THEN IntOfFloat(SearchRun(s))
              ELSE NULL

----------------------------------------------------------------------------
(* The inputs of parse_int *)

Alphabet == {"0", "1", ".", ",", "k", "M", "a", " "}

RECURSIVE StringsUpTo(_)
StringsUpTo(n) ==
    IF n = 0 THEN {<<>>}
    ELSE LET shorter == StringsUpTo(n - 1) IN
         shorter \cup {Append(s, c) : s \in {x \in shorter : Len(x) = n - 1},
                                      c \in Alphabet}

Texts == {[none |-> TRUE, s |-> <<>>]}
            \cup {[none |-> FALSE, s |-> s] : s \in StringsUpTo(MaxLen)}

NoParse ==
    /\ text = [none |-> TRUE, s |-> <<>>]
    /\ parsed = NotRun

NoFollowers ==
    /\ followers_csv = <<>>
    /\ followers_daily_csv = <<>>

\* the absent POSTS_CSV
NoFile == [link_col |-> FALSE, rows |-> <<>>]

NoPosts ==
    /\ posts_csv = NoFile
    /\ store0 = NoFile

NoMain ==
    /\ channel_summary_csv = <<>>
    /\ now = 0
    /\ run_no = 1
    /\ followers = NotRun

\* __main__ calls enrich_posts_metrics(POSTS_CSV, max_to_enrich=40, sleep_sec=2)
MainMaxToEnrich == 40

NoEnrich ==
    /\ max_to_enrich = MainMaxToEnrich
    /\ df = <<>>
    /\ need = <<>>
    /\ pos = 1
    /\ updated = 0
    /\ events = <<>>

NoFetch ==
    /\ attempt = 1
    /\ shape = 1
    /\ page_i = 0
    /\ got_any = FALSE
    /\ all_posts = <<>>
    /\ calls = <<>>

InitParse ==
    /\ text \in Texts
    /\ parsed = NotRun
    /\ pc = "parse_int"
    /\ error = ""
    /\ NoFollowers
    /\ NoFetch
    /\ NoPosts
    /\ NoEnrich
    /\ NoMain

ParseInt ==
    /\ pc = "parse_int"
    /\ parsed' = parse_int(text)
    /\ pc' = "done"
    /\ error' = IF parse_int(text) = ValueError THEN "ValueError" ELSE ""
    /\ UNCHANGED <<text, followerVars, fetchVars, posts_csv, store0, enrichVars,
                   mainVars>>

NextParse == ParseInt

SpecParse == InitParse /\ [][NextParse]_vars

\* C10: parse_int is total: it returns an integer or null and never raises,
\* and it returns null exactly when its argument is null or holds no digit.
ParseIntTotal ==
    pc = "done" =>
        /\ parsed # ValueError
        /\ parsed >= NULL
        /\ (parsed = NULL) <=> (text.none \/ ~HasDigit(text.s))

----------------------------------------------------------------------------
(* The feed: try_company_updates_calls and fetch_posts_all_pages,            *)
(* src/main.py:82-136                                                        *)

\* the candidates of attempts (lines 84-89) and of paginated_attempts (112-117)
NumShapes == 4

\* fetch_posts_all_pages(limit=20, max_pages=8, sleep_sec=1), line 105
limit == 20

max_pages == 8

\* A response of the feed endpoint: a non-200 status, an exception (transport,
\* or r.json() / the indexing of a malformed body, all caught alike), or a 200
\* whose body gives the list `updates` (empty when the body has none).
FeedResponses(U) ==
    {[status |-> "500", updates |-> <<>>], [status |-> "raise", updates |-> <<>>]}
        \cup {[status |-> "200", updates |-> u] : u \in U}

\* lines 94-98 and 124-126: the update list an attempt yields
UpdatesOf(r) == IF r.status = "200" THEN r.updates ELSE <<>>

\* TryCompanyUpdatesCall where a non-200 status or an exception ends the
\* search with no result (a return in place of the continue of line 96)
TryCompanyUpdatesCall_abort(U) ==
    /\ pc = "try_company_updates_calls"
    /\ \E r \in FeedResponses(U) :
         LET updates == UpdatesOf(r) IN
         /\ calls' = Append(calls, [kind |-> "single", shape |-> attempt,
                                    start |-> 0, got |-> Len(updates)])
         /\ IF updates # <<>>
            THEN /\ all_posts' = all_posts \o updates
                 /\ pc' = "fetch_posts_all_pages"
                 /\ attempt' = attempt
            ELSE /\ all_posts' = all_posts
                 /\ IF attempt < NumShapes /\ r.status = "200"
                    THEN /\ attempt' = attempt + 1
                         /\ pc' = pc
                    ELSE /\ attempt' = attempt
                         /\ pc' = "fetch_posts_all_pages"
    /\ UNCHANGED <<parseVars, followerVars, error, shape, page_i, got_any,
                   posts_csv, store0, enrichVars, mainVars>>

\* one turn of the loop of try_company_updates_calls (lines 90-103), and, when
\* it returns, lines 108-110 of fetch_posts_all_pages
TryCompanyUpdatesCall(U) ==
    /\ pc = "try_company_updates_calls"
    /\ \E r \in FeedResponses(U) :
         LET updates == UpdatesOf(r) IN
         /\ calls' = Append(calls, [kind |-> "single", shape |-> attempt,
                                    start |-> 0, got |-> Len(updates)])
         /\ IF updates # <<>>
            THEN /\ all_posts' = all_posts \o updates
                 /\ pc' = "fetch_posts_all_pages"
                 /\ attempt' = attempt
            ELSE /\ all_posts' = all_posts
                 /\ IF attempt < NumShapes
                    THEN /\ attempt' = attempt + 1
                         /\ pc' = pc
                    ELSE /\ attempt' = attempt
                         /\ pc' = "fetch_posts_all_pages"
    /\ UNCHANGED <<parseVars, followerVars, error, shape, page_i, got_any,
                   posts_csv, store0, enrichVars, mainVars>>

\* LeaveShape without the test of line 135: every shape is paged in turn
LeaveShape_all(g) ==
    IF shape = NumShapes
    THEN /\ pc' = "save_posts_append_dedupe"
         /\ UNCHANGED <<shape, page_i>>
         /\ got_any' = g
    ELSE /\ pc' = pc
         /\ shape' = shape + 1
         /\ page_i' = 0
         /\ got_any' = FALSE

\* the inner loop is left (break, or range(max_pages) exhausted): line 135
LeaveShape(g) ==
    IF g \/ shape = NumShapes
    THEN /\ pc' = "save_posts_append_dedupe"
         /\ UNCHANGED <<shape, page_i>>
         /\ got_any' = g
    ELSE /\ pc' = pc
         /\ shape' = shape + 1
         /\ page_i' = 0
         /\ got_any' = FALSE

\* PageCall without the test of line 130: a short page does not end the shape
PageCall_noshort(U) ==
    /\ pc = "fetch_posts_all_pages"
    /\ \E r \in FeedResponses(U) :
         LET page == UpdatesOf(r) IN
         /\ calls' = Append(calls, [kind |-> "paged", shape |-> shape,
                                    start |-> page_i * limit, got |-> Len(page)])
         /\ IF page = <<>>
            THEN /\ all_posts' = all_posts
                 /\ LeaveShape(got_any)
            ELSE /\ all_posts' = all_posts \o page
                 /\ IF page_i + 1 = max_pages
                    THEN LeaveShape(TRUE)
                    ELSE /\ page_i' = page_i + 1
                         /\ got_any' = TRUE
                         /\ UNCHANGED <<pc, shape>>
    /\ UNCHANGED <<parseVars, followerVars, error, attempt,
                   posts_csv, store0, enrichVars, mainVars>>

\* one turn of the inner loop of fetch_posts_all_pages (lines 120-134)
PageCall(U) ==
    /\ pc = "fetch_posts_all_pages"
    /\ \E r \in FeedResponses(U) :
         LET page == UpdatesOf(r) IN
         /\ calls' = Append(calls, [kind |-> "paged", shape |-> shape,
                                    start |-> page_i * limit, got |-> Len(page)])
         /\ IF page = <<>>
            THEN /\ all_posts' = all_posts
                 /\ LeaveShape(got_any)
            ELSE /\ all_posts' = all_posts \o page
                 /\ IF Len(page) < limit \/ page_i + 1 = max_pages
                    THEN LeaveShape(TRUE)
                    ELSE /\ page_i' = page_i + 1
                         /\ got_any' = TRUE
                         /\ UNCHANGED <<pc, shape>>
    /\ UNCHANGED <<parseVars, followerVars, error, attempt,
                   posts_csv, store0, enrichVars, mainVars>>

----------------------------------------------------------------------------
(* Feed updates.  An update is [article_link, total_likes, other]: the link,  *)
(* the like count (standing for the feed fields the merge keeps and only     *)
(* carries along), and a scraped field the merge does not keep.  A link is a *)
(* string, or Absent (the update has no such key), or NaN (a missing value   *)
(* of a table).                                                              *)

Absent == <<"<absent>">>

NaN == <<"<NaN>">>

LinkChars == <<"a", "b", "c", "d", "e", "f">>

\* the link of post k
Http(k) == <<"h", "t", "t", "p", LinkChars[k]>>

\* a page of n updates, each marked with the size of its page
PageOfSize(n) ==
    [k \in 1..n |-> [article_link |-> Http(1), total_likes |-> NULL, other |-> n]]

\* the update lists of the pagination study: empty, short and full pages
PagesBySize == {PageOfSize(n) : n \in {0, 5, limit}}

InitPages ==
    /\ NoParse
    /\ NoFollowers
    /\ pc = "try_company_updates_calls"
    /\ error = ""
    /\ NoFetch
    /\ NoPosts
    /\ NoEnrich
    /\ NoMain

NextPages ==
    \/ TryCompanyUpdatesCall(PagesBySize)
    \/ PageCall(PagesBySize)

SpecPages == InitPages /\ [][NextPages]_vars

\* the requests of try_company_updates_calls, in order
Singles == SelectSeq(calls, LAMBDA c : c.kind = "single")

\* the paged requests, in order
Paged == SelectSeq(calls, LAMBDA c : c.kind = "paged")

\* C14: try_company_updates_calls requests the candidates in the fixed order
\* 1, 2, 3, 4; candidate i+1 is requested exactly when candidate i gave no
\* update (a non-200 status, an exception or an empty list); the search ends
\* at the first candidate that gave a non-empty list, or after the fourth; its
\* result is the list of that candidate, and is empty iff no candidate gave a
\* non-empty list.
EndpointDiscovery ==
    LET q == Singles IN
    /\ Len(q) <= NumShapes
    /\ \A k \in 1..Len(q) : q[k].shape = k
    /\ \A k \in 1..(Len(q) - 1) : q[k].got = 0
    /\ IF pc = "try_company_updates_calls"
       THEN /\ Len(q) < NumShapes
            /\ attempt = Len(q) + 1
            /\ \A k \in 1..Len(q) : q[k].got = 0
            /\ all_posts = <<>>
       ELSE /\ Len(q) >= 1
            /\ q[Len(q)].got > 0 \/ Len(q) = NumShapes
            /\ Len(all_posts) >= q[Len(q)].got
            /\ SubSeq(all_posts, 1, q[Len(q)].got) = PageOfSize(q[Len(q)].got)
            /\ Paged = <<>> => all_posts = PageOfSize(q[Len(q)].got)

\* the first two candidates gave nothing, the third gave 5 updates: the search
\* ended there with these 5 updates
EndpointDiscoveryWitness ==
    /\ pc = "fetch_posts_all_pages"
    /\ Paged = <<>>
    /\ Len(Singles) = 3
    /\ Singles[1].got = 0 /\ Singles[2].got = 0 /\ Singles[3].got = 5
    /\ all_posts = PageOfSize(5)

\* the updates the requests of a log gave, in the order of the requests
RECURSIVE UpdatesOfCalls(_)
UpdatesOfCalls(q) ==
    IF q = <<>> THEN <<>>
    ELSE UpdatesOfCalls(SubSeq(q, 1, Len(q) - 1)) \o PageOfSize(q[Len(q)].got)

\* the shapes whose paged requests gave at least one non-empty page
YieldingShapes == {Paged[k].shape : k \in {n \in 1..Len(Paged) : Paged[n].got > 0}}

\* C15: the paged requests go to the shapes in priority order; a request goes
\* to shape j only when no earlier shape gave a non-empty page; after a shape
\* gave a non-empty page no later shape is requested; the list returned is
\* the discovery result followed by the pages of that one shape, in page
\* order.
ShapeOrdering ==
    /\ \A k \in 1..(Len(Paged) - 1) : Paged[k].shape <= Paged[k + 1].shape
    /\ \A k \in 1..Len(Paged) : \A n \in 1..(k - 1) :
          Paged[n].shape < Paged[k].shape => Paged[n].got = 0
    /\ Cardinality(YieldingShapes) <= 1
    /\ \A j \in YieldingShapes : \A k \in 1..Len(Paged) : Paged[k].shape <= j
    /\ (pc = "fetch_posts_all_pages" /\ Paged # <<>>) => shape >= Paged[Len(Paged)].shape
    /\ all_posts = UpdatesOfCalls(Singles) \o UpdatesOfCalls(Paged)
    /\ \A j \in YieldingShapes :
          all_posts = UpdatesOfCalls(Singles) \o UpdatesOfCalls(
                         SelectSeq(Paged, LAMBDA c : c.shape = j))

\* discovery gave 5 updates; the first shape gave no page, the second gave
\* pages of 20 and 5 updates; the fetch returned the 5, the 20 and the 5, and
\* shapes 3 and 4 were never requested
ShapeOrderingWitness ==
    /\ pc = "save_posts_append_dedupe"
    /\ Singles # <<>> /\ Singles[Len(Singles)].got = 5
    /\ Len(Paged) = 3
    /\ Paged[1].shape = 1 /\ Paged[1].got = 0
    /\ Paged[2].shape = 2 /\ Paged[2].got = limit
    /\ Paged[3].shape = 2 /\ Paged[3].got = 5
    /\ all_posts = PageOfSize(5) \o PageOfSize(limit) \o PageOfSize(5)

\* the paged requests sent to shape s, in order
PagedTo(s) == SelectSeq(calls, LAMBDA c : c.kind = "paged" /\ c.shape = s)

Returned == pc = "save_posts_append_dedupe"

\* C8: within one shape the paged requests go to the offsets 0, limit,
\* 2*limit, ...; none follows a request that gave an empty or short page or
\* failed (non-200 or raised); there are never more than max_pages; and when
\* the pages of the first shape had the sizes [20, 20, 5], exactly three paged
\* requests were made in all and the function has returned.
PaginationTermination ==
    /\ \A s \in 1..NumShapes :
         LET q == PagedTo(s) IN
         /\ Len(q) <= max_pages
         /\ \A k \in 1..Len(q) : q[k].start = (k - 1) * limit
         /\ \A k \in 1..(Len(q) - 1) : q[k].got = limit
         /\ (Len(q) > 0 /\ q[Len(q)].got < limit) =>
               IF q[Len(q)].got > 0 THEN Returned ELSE shape > s \/ Returned
    /\ (Len(PagedTo(1)) >= 3 /\ PagedTo(1)[1].got = 20 /\ PagedTo(1)[2].got = 20
            /\ PagedTo(1)[3].got = 5)
         => /\ Returned
            /\ Len(SelectSeq(calls, LAMBDA c : c.kind = "paged")) = 3

\* the first shape gave pages of 20, 20 and 5 updates and the fetch returned
PaginationTerminationWitness ==
    /\ Returned
    /\ Len(PagedTo(1)) = 3
    /\ PagedTo(1)[1].got = 20 /\ PagedTo(1)[2].got = 20 /\ PagedTo(1)[3].got = 5
    /\ Len(all_posts) >= 45

----------------------------------------------------------------------------
(* upload_csv_to_supabase, src/main.py:23-40 *)

\* what one HTTP call to a collaborator does: a status code, or an exception
\* raised by requests (connection error, timeout)
HttpOutcomes == {"200", "500", "raise"}

\* open(file_path) raises when the file is absent (line 35); requests.post may
\* raise (line 36); any status is logged and the function returns (lines 37-40)
upload_csv_to_supabase(exists, resp) ==
    IF ~exists THEN "FileNotFoundError"
    ELSE IF resp = "raise" THEN "RequestException"
    ELSE ""

----------------------------------------------------------------------------
(* build_followers_daily, src/main.py:252-265 *)

\* df["timestamp"].dt.date
DateOf(ts) == ts \div TicksPerDay

\* insert row r into the sequence s, sorted by column col, after the rows of
\* equal value
RECURSIVE InsertBy(_, _, _)
InsertBy(s, r, col) ==
    IF s = <<>> THEN <<r>>
    ELSE IF r[col] < s[1][col] THEN <<r>> \o s
    ELSE <<s[1]>> \o InsertBy(Tail(s), r, col)

\* df.sort_values(col): the rows in ascending order of column col
RECURSIVE SortBy(_, _)
SortBy(s, col) ==
    IF s = <<>> THEN <<>>
    ELSE InsertBy(SortBy(SubSeq(s, 1, Len(s) - 1), col), s[Len(s)], col)

\* groupby("date").tail(1): the last row of every date, in row order
LastPerDate(s) ==
    LET keep == {i \in 1..Len(s) :
                    \A j \in (i + 1)..Len(s) : DateOf(s[j].timestamp) # DateOf(s[i].timestamp)}
        pick[i \in 0..Len(s)] ==
            IF i = 0 THEN <<>>
            ELSE IF i \in keep THEN Append(pick[i - 1], s[i]) ELSE pick[i - 1]
    IN pick[Len(s)]

\* groupby("date").head(1): the first row of every date, in row order
FirstPerDate(s) ==
    LET keep == {i \in 1..Len(s) :
                    \A j \in 1..(i - 1) : DateOf(s[j].timestamp) # DateOf(s[i].timestamp)}
        pick[i \in 0..Len(s)] ==
            IF i = 0 THEN <<>>
            ELSE IF i \in keep THEN Append(pick[i - 1], s[i]) ELSE pick[i - 1]
    IN pick[Len(s)]

\* DailyTable keeping the first reading of a day where the code keeps the last
DailyTable_head(log) ==
    LET first == FirstPerDate(SortBy(log, "timestamp"))
        daily == SortBy([i \in 1..Len(first) |->
                            [date |-> DateOf(first[i].timestamp),
                             followers |-> first[i].followers]], "date")
    IN [i \in 1..Len(daily) |->
            [date |-> daily[i].date,
             followers |-> daily[i].followers,
             new_followers |-> IF i = 1 THEN 0
                               ELSE daily[i].followers - daily[i - 1].followers]]

\* lines 258-263: the daily table computed from the rows of FOLLOWERS_CSV
DailyTable(log) ==
    LET last == LastPerDate(SortBy(log, "timestamp"))
        daily == SortBy([i \in 1..Len(last) |->
                            [date |-> DateOf(last[i].timestamp),
                             followers |-> last[i].followers]], "date")
    IN [i \in 1..Len(daily) |->
            [date |-> daily[i].date,
             followers |-> daily[i].followers,
             new_followers |-> IF i = 1 THEN 0
                               ELSE daily[i].followers - daily[i - 1].followers]]

\* build_followers_daily(): nothing without a log (lines 254-257); else the table
\* is written and uploaded, and an exception of the upload ends the run
BuildFollowersDaily ==
    /\ pc = "build_followers_daily"
    /\ IF followers_csv = <<>>
       THEN /\ pc' = "build_channel_summary"
            /\ UNCHANGED <<error, followers_daily_csv>>
       ELSE /\ followers_daily_csv' = DailyTable(followers_csv)
            /\ \E resp \in HttpOutcomes :
                 LET e == upload_csv_to_supabase(TRUE, resp) IN
                 /\ error' = e
                 /\ pc' = IF e = "" THEN "build_channel_summary" ELSE "crashed"
    /\ UNCHANGED <<parseVars, followers_csv, fetchVars, posts_csv, store0, enrichVars,
                   mainVars>>

----------------------------------------------------------------------------
(* The follower logs a sequence of runs can have written: one row per run    *)
(* that read a count, stamped with the time of the run, so in strictly       *)
(* increasing order of time.                                                 *)

FollowerCounts == {100, 110, 130}

Chronological(log) ==
    \A i \in 1..(Len(log) - 1) : log[i].timestamp < log[i + 1].timestamp

RECURSIVE ChronoLogs(_)
ChronoLogs(n) ==
    IF n = 0 THEN {<<>>}
    ELSE LET shorter == ChronoLogs(n - 1) IN
         shorter \cup
         {log \in {Append(s, [timestamp |-> ts, followers |-> f]) :
                      s \in {x \in shorter : Len(x) = n - 1},
                      ts \in 0..MaxTime, f \in FollowerCounts} :
             Chronological(log)}

InitDaily ==
    /\ NoParse
    /\ pc = "build_followers_daily"
    /\ error = ""
    /\ followers_csv \in ChronoLogs(MaxLog)
    /\ followers_daily_csv = <<>>
    /\ NoFetch
    /\ NoPosts
    /\ NoEnrich
    /\ NoMain

NextDaily == BuildFollowersDaily

SpecDaily == InitDaily /\ [][NextDaily]_vars

DailyBuilt == pc \in {"build_channel_summary", "crashed"} /\ followers_csv # <<>>

LogDates == {DateOf(followers_csv[i].timestamp) : i \in 1..Len(followers_csv)}

\* the last row of the log stamped with date d
LastOfDate(d) ==
    followers_csv[CHOOSE i \in 1..Len(followers_csv) :
        /\ DateOf(followers_csv[i].timestamp) = d
        /\ \A j \in (i + 1)..Len(followers_csv) :
              DateOf(followers_csv[j].timestamp) # d]

\* C9: once build_followers_daily has run over a chronologically appended log,
\* the daily table holds exactly one point per calendar date of the log, in
\* ascending date order; a point's followers is the last observation of its
\* date, its new_followers is its followers minus those of the point before
\* it, and 0 for the first point.
DailyAggregation ==
    DailyBuilt =>
        LET d == followers_daily_csv IN
        /\ {d[i].date : i \in 1..Len(d)} = LogDates
        /\ Len(d) = Cardinality(LogDates)
        /\ \A i \in 1..(Len(d) - 1) : d[i].date < d[i + 1].date
        /\ \A i \in 1..Len(d) :
              /\ d[i].followers = LastOfDate(d[i].date).followers
              /\ d[i].new_followers =
                    IF i = 1 THEN 0 ELSE d[i].followers - d[i - 1].followers

\* the log [(day0,100), (day0,110), (day1,110), (day2,130)] has been aggregated
\* to [(day0,110,0), (day1,110,0), (day2,130,20)]
DailyAggregationWitness ==
    /\ DailyBuilt
    /\ followers_csv = << [timestamp |-> 0, followers |-> 100],
                          [timestamp |-> TicksPerDay - 1, followers |-> 110],
                          [timestamp |-> TicksPerDay, followers |-> 110],
                          [timestamp |-> 2 * TicksPerDay, followers |-> 130] >>
    /\ followers_daily_csv = << [date |-> 0, followers |-> 110, new_followers |-> 0],
                                [date |-> 1, followers |-> 110, new_followers |-> 0],
                                [date |-> 2, followers |-> 130, new_followers |-> 20] >>

----------------------------------------------------------------------------
(* save_posts_append_dedupe after the fetch, src/main.py:140-160             *)

MetricSet == {"impressions", "reactions", "comments", "reposts"}

\* lines 143-145 and 152-154: an update projected on the kept feed columns,
\* as a row of the frame (a missing cell reads NaN, a missing metric NA)
NewRow(u) ==
    [article_link |-> IF u.article_link = Absent THEN NaN ELSE u.article_link,
     total_likes |-> u.total_likes,
     impressions |-> NULL, reactions |-> NULL, comments |-> NULL, reposts |-> NULL]

\* "article_link" in df_new.columns: some update has the key
HasLinkColumn(posts) == \E i \in 1..Len(posts) : posts[i].article_link # Absent

\* the rows at the index set keep, in row order
Rows(s, keep) ==
    LET pick[i \in 0..Len(s)] ==
            IF i = 0 THEN <<>>
            ELSE IF i \in keep THEN Append(pick[i - 1], s[i]) ELSE pick[i - 1]
    IN pick[Len(s)]

\* drop_duplicates left out
DropDuplicates_none(rows) == rows

\* line 157: drop_duplicates(subset=["article_link"], keep="last"); missing
\* links count as equal to one another
DropDuplicates(rows) ==
    Rows(rows, {i \in 1..Len(rows) :
                  \A j \in (i + 1)..Len(rows) : rows[j].article_link # rows[i].article_link})

\* to_csv then read_csv: an empty string is written as an empty cell, which
\* reads back as a missing value
CsvCell(link) == IF link = <<>> THEN NaN ELSE link

ToCsv(rows) == [i \in 1..Len(rows) |-> [rows[i] EXCEPT !.article_link = CsvCell(@)]]

\* lines 147-150 with the existing file dropped: df_all = df_new
MergePosts_overwrite(file, posts) ==
    LET link_col == HasLinkColumn(posts)
        df_all == [i \in 1..Len(posts) |-> NewRow(posts[i])]
    IN [link_col |-> link_col,
        rows |-> ToCsv(IF link_col THEN DropDuplicates(df_all) ELSE df_all)]

\* lines 143-159: the file written for a non-empty list of updates
MergePosts(file, posts) ==
    LET link_col == file.link_col \/ HasLinkColumn(posts)
        df_all == file.rows \o [i \in 1..Len(posts) |-> NewRow(posts[i])]
    IN [link_col |-> link_col,
        rows |-> ToCsv(IF link_col THEN DropDuplicates(df_all) ELSE df_all)]

\* save_posts_append_dedupe once fetch_posts_all_pages has returned: the file
\* is written unless the fetch gave nothing; the locals of the fetch are gone,
\* the fetched list is kept for the record of the run
SavePostsAppendDedupe ==
    /\ pc = "save_posts_append_dedupe"
    /\ posts_csv' = IF all_posts = <<>> THEN posts_csv
                    ELSE MergePosts(posts_csv, all_posts)
    /\ pc' = "enrich_posts_metrics"
    /\ attempt' = 1
    /\ shape' = 1
    /\ page_i' = 0
    /\ got_any' = FALSE
    /\ calls' = <<>>
    /\ UNCHANGED <<parseVars, followerVars, error, all_posts, store0, enrichVars,
                   mainVars>>

----------------------------------------------------------------------------
(* fetch_post_metrics and _extract_from_json_blocks, src/main.py:163-221     *)
(*                                                                         *)
(* A detail page is [status, text, json]: text[p] is what pattern p of the   *)
(* visible-text patterns captures (group 1 of its first match) and json[k]   *)
(* what the pattern of key k captures in the raw page; NoMatch when the      *)
(* pattern does not match.                                                  *)

NoMatch == [none |-> TRUE, s |-> <<>>]

Tok(s) == [none |-> FALSE, s |-> s]

TextPatterns == {"impressions", "views", "reactions", "likes", "comments",
                 "reposts", "shares"}

JsonKeys == {"impressions", "views", "likes", "reactions", "comments",
             "replies", "reposts", "shares"}

\* lines 206-209: the patterns tried for each metric, in order
PatternsOf(metric) ==
    CASE metric = "impressions" -> <<"impressions", "views">>
      [] metric = "reactions" -> <<"reactions", "likes">>
      [] metric = "comments" -> <<"comments">>
      [] metric = "reposts" -> <<"reposts", "shares">>

\* lines 180-183: the preferred key and its synonym
PreferredKey(metric) == metric

SynonymKey(metric) ==
    CASE metric = "impressions" -> "views"
      [] metric = "reactions" -> "likes"
      [] metric = "comments" -> "replies"
      [] metric = "reposts" -> "shares"

NoMetrics == [k \in MetricSet |-> NULL]

\* grab(patterns), lines 199-203: the first pattern that matches decides
grab(txt, patterns) ==
    LET hits == {i \in 1..Len(patterns) : ~txt[patterns[i]].none} IN
    IF hits = {} THEN NULL
    ELSE parse_int(txt[patterns[CHOOSE i \in hits : \A j \in hits : i <= j]])

\* nums[key] of lines 175-178; NULL when the key is not in nums or maps to None
JsonNum(json, key) == IF json[key].none THEN NULL ELSE parse_int(json[key])

\* Python's `a or b` on optional integers: b when a is None or 0
PyOr(a, b) == IF a = NULL \/ a = 0 THEN b ELSE a

\* a parse_int of lines 175-178 raises
JsonRaises(json) == \E k \in JsonKeys : JsonNum(json, k) = ValueError

\* _extract_from_json_blocks when nothing raised: the mapping, NULL for a key
\* it does not hold
extract_from_json_blocks(json) ==
    [metric \in MetricSet |->
        PyOr(JsonNum(json, PreferredKey(metric)), JsonNum(json, SynonymKey(metric)))]

\* fetch_post_metrics where the embedded data overrides the visible text
fetch_post_metrics_json(page) ==
    IF page.status # "200" THEN NoMetrics
    ELSE LET metrics == [k \in MetricSet |-> grab(page.text, PatternsOf(k))]
             missing == {k \in MetricSet : metrics[k] = NULL}
         IN IF \E k \in MetricSet : metrics[k] = ValueError THEN NoMetrics
            ELSE IF missing = {} THEN metrics
            ELSE IF JsonRaises(page.json) THEN NoMetrics
            ELSE LET from_json == extract_from_json_blocks(page.json) IN
                 [k \in MetricSet |->
                     IF from_json[k] # NULL THEN from_json[k] ELSE metrics[k]]

\* fetch_post_metrics: the mapping, NULL for a key it does not hold; the empty
\* mapping on a non-200 status and on any exception
fetch_post_metrics(page) ==
    IF page.status # "200" THEN NoMetrics
    ELSE LET metrics == [k \in MetricSet |-> grab(page.text, PatternsOf(k))]
             missing == {k \in MetricSet : metrics[k] = NULL}
         IN IF \E k \in MetricSet : metrics[k] = ValueError THEN NoMetrics
            ELSE IF missing = {} THEN metrics
            ELSE IF JsonRaises(page.json) THEN NoMetrics
            ELSE LET from_json == extract_from_json_blocks(page.json) IN
                 [k \in MetricSet |->
                     IF k \in missing THEN from_json[k] ELSE metrics[k]]

----------------------------------------------------------------------------
(* enrich_posts_metrics, src/main.py:223-249                                 *)

\* line 229: isna().any(axis=1)
NeedsEnrichment(row) == \E k \in MetricSet : row[k] = NULL

\* head(n): the first n elements of s
FirstN(s, n) == SubSeq(s, 1, IF Len(s) < n THEN Len(s) ELSE n)

\* line 229 selecting the rows with every metric missing (the earlier predicate)
Candidates_all(rows) ==
    LET pick[i \in 0..Len(rows)] ==
            IF i = 0 THEN <<>>
            ELSE IF \A k \in MetricSet : rows[i][k] = NULL
                 THEN Append(pick[i - 1], i) ELSE pick[i - 1]
    IN pick[Len(rows)]

\* line 229: the index labels of the rows that miss a metric, in store order
Candidates(rows) ==
    LET pick[i \in 0..Len(rows)] ==
            IF i = 0 THEN <<>>
            ELSE IF NeedsEnrichment(rows[i])
                 THEN Append(pick[i - 1], i) ELSE pick[i - 1]
    IN pick[Len(rows)]

\* line 237: isinstance(url, str) and url.startswith("http")
UsableUrl(url) ==
    /\ url # NaN
    /\ Len(url) >= 4
    /\ SubSeq(url, 1, 4) = <<"h", "t", "t", "p">>

\* lines 239-240: the feed's like count stands in for a missing reactions value
WithFallback(m, row) ==
    IF m["reactions"] = NULL /\ row.total_likes # NULL
    THEN [m EXCEPT !["reactions"] = row.total_likes]
    ELSE m

\* lines 242-243: every key of m written on the row
WriteMetrics(row, m) ==
    [c \in DOMAIN row |-> IF c \in MetricSet /\ m[c] # NULL THEN m[c] ELSE row[c]]

\* lines 224-233: the file is read and the rows to enrich are selected
EnrichPostsMetrics ==
    /\ pc = "enrich_posts_metrics"
    /\ IF posts_csv.rows = <<>>
       THEN /\ pc' = "upload_posts"
            /\ UNCHANGED <<df, need>>
       ELSE /\ df' = posts_csv.rows
            /\ need' = FirstN(Candidates(posts_csv.rows), max_to_enrich)
            /\ pc' = IF Candidates(posts_csv.rows) = <<>> THEN "upload_posts"
                     ELSE "enrich_loop"
    /\ pos' = 1
    /\ updated' = 0
    /\ events' = <<>>
    /\ UNCHANGED <<parseVars, followerVars, error, fetchVars, posts_csv, store0,
                   max_to_enrich, mainVars>>

\* FinishEnrich writing the file whatever updated is
FinishEnrich_always(n, frame, ev) ==
    /\ pc' = "upload_posts"
    /\ posts_csv' = [posts_csv EXCEPT !.rows = ToCsv(frame)]
    /\ events' = Append(ev, [op |-> "to_csv"])

\* lines 247-249 once the loop over need is over: the file is written when
\* updated is not 0
FinishEnrich(n, frame, ev) ==
    /\ pc' = "upload_posts"
    /\ IF n > 0
       THEN /\ posts_csv' = [posts_csv EXCEPT !.rows = ToCsv(frame)]
            /\ events' = Append(ev, [op |-> "to_csv"])
       ELSE /\ posts_csv' = posts_csv
            /\ events' = ev

\* PacedFetch with the sleep inside `if m:` (no pause after an empty answer)
PacedFetch_onhit(idx, page) ==
    IF fetch_post_metrics(page) = NoMetrics
    THEN <<[op |-> "fetch", idx |-> idx, page |-> page]>>
    ELSE <<[op |-> "fetch", idx |-> idx, page |-> page],
           [op |-> "sleep", idx |-> idx]>>

\* lines 238 and 246: the request and the pause of a turn of the loop for a
\* row whose link is usable; page is what the request found
PacedFetch(idx, page) ==
    <<[op |-> "fetch", idx |-> idx, page |-> page],
      [op |-> "sleep", idx |-> idx]>>

\* one turn of the loop of lines 235-246, and lines 247-249 after the last
EnrichRow(Pages) ==
    /\ pc = "enrich_loop"
    /\ LET idx == need[pos]
           row == posts_csv.rows[idx]
           last == pos = Len(need)
       IN IF ~UsableUrl(row.article_link)
          THEN /\ UNCHANGED <<df, updated>>
               /\ IF last THEN FinishEnrich(updated, df, events)
                  ELSE UNCHANGED <<pc, posts_csv, events>>
          ELSE \E page \in Pages :
                 LET m == WithFallback(fetch_post_metrics(page), row)
                     hit == m # NoMetrics
                     frame == IF hit THEN [df EXCEPT ![idx] = WriteMetrics(@, m)]
                              ELSE df
                     n == IF hit THEN updated + 1 ELSE updated
                     ev == events \o PacedFetch(idx, page)
                 IN /\ df' = frame
                    /\ updated' = n
                    /\ IF last THEN FinishEnrich(n, frame, ev)
                       ELSE /\ events' = ev
                            /\ UNCHANGED <<pc, posts_csv>>
    /\ pos' = pos + 1
    /\ UNCHANGED <<parseVars, followerVars, error, fetchVars, store0,
                   max_to_enrich, need, mainVars>>

----------------------------------------------------------------------------
(* Detail pages *)

NoText == [p \in TextPatterns |-> NoMatch]

NoJson == [k \in JsonKeys |-> NoMatch]

PageDown == [status |-> "500", text |-> NoText, json |-> NoJson]

PageRaise == [status |-> "raise", text |-> NoText, json |-> NoJson]

\* a page that shows no count
PageBlank == [status |-> "200", text |-> NoText, json |-> NoJson]

\* a page that shows "50 reactions"
PageReactions ==
    [status |-> "200", json |-> NoJson,
     text |-> [NoText EXCEPT !["reactions"] = Tok(<<"5", "0">>)]]

\* a page that shows "10 impressions"
PageImpressions ==
    [status |-> "200", json |-> NoJson,
     text |-> [NoText EXCEPT !["impressions"] = Tok(<<"1", "0">>)]]

\* a page that shows the four counts
PageFull ==
    [status |-> "200", json |-> NoJson,
     text |-> [NoText EXCEPT !["impressions"] = Tok(<<"1", "0">>),
                             !["reactions"] = Tok(<<"5", "0">>),
                             !["comments"] = Tok(<<"5">>),
                             !["reposts"] = Tok(<<"5">>)]]

DetailPages == {PageDown, PageRaise, PageBlank, PageReactions, PageImpressions,
                PageFull}

----------------------------------------------------------------------------
(* The stores enrich_posts_metrics can find.  A row that has a usable link   *)
(* holds what earlier passes wrote: nothing, the feed's like count as        *)
(* reactions, a partial set, or the four counts.  A row without a usable     *)
(* link has never been fetched and holds no metric.                          *)

LikeCounts == {NULL, 7}

BareRow(link, likes) ==
    [article_link |-> link, total_likes |-> likes,
     impressions |-> NULL, reactions |-> NULL, comments |-> NULL, reposts |-> NULL]

HttpRows(link) ==
    {BareRow(link, l) : l \in LikeCounts}
        \cup {[BareRow(link, NULL) EXCEPT !.impressions = 10],
              [BareRow(link, 7) EXCEPT !.reactions = 50],
              [BareRow(link, 7) EXCEPT !.impressions = 10, !.reactions = 50,
                                      !.comments = 5, !.reposts = 5]}

\* the rows the i-th position of a store can hold: links differ by position
RowsAt(i) ==
    HttpRows(Http(i))
        \cup {BareRow(<<"x", LinkChars[i]>>, l) : l \in LikeCounts}
        \cup {BareRow(NaN, l) : l \in LikeCounts}

RECURSIVE StoresUpTo(_)
StoresUpTo(n) ==
    IF n = 0 THEN {<<>>}
    ELSE LET shorter == StoresUpTo(n - 1) IN
         shorter \cup {Append(s, r) : s \in {x \in shorter : Len(x) = n - 1},
                                      r \in RowsAt(n)}

BatchLimits == (1..MaxBatch) \cup {MainMaxToEnrich}

InitEnrich ==
    /\ NoParse
    /\ NoFollowers
    /\ NoFetch
    /\ pc = "enrich_posts_metrics"
    /\ error = ""
    /\ posts_csv \in {[link_col |-> TRUE, rows |-> s] : s \in StoresUpTo(MaxRows) \ {<<>>}}
                        \cup {NoFile}
    /\ store0 = posts_csv
    /\ max_to_enrich \in BatchLimits
    /\ df = <<>>
    /\ need = <<>>
    /\ pos = 1
    /\ updated = 0
    /\ events = <<>>
    /\ NoMain

NextEnrich ==
    \/ EnrichPostsMetrics
    \/ EnrichRow(DetailPages)

SpecEnrich == InitEnrich /\ [][NextEnrich]_vars

\* the index labels of the rows a detail page was fetched for, in order
Fetched == SelectSeq(events, LAMBDA e : e.op = "fetch")

\* the number of rows up to row i that missed a metric when the pass began
Rank(i) == Cardinality({j \in 1..i : \E k \in MetricSet : store0.rows[j][k] = NULL})

Selected == pc \in {"enrich_loop", "upload_posts"} /\ store0.rows # <<>>

\* C7: in one call of enrich_posts_metrics a row is selected iff it misses at
\* least one of the four metrics and is among the first max_to_enrich such
\* rows in store order; a detail page is fetched only for selected rows, at
\* most once per row, and never for a row that holds all four metrics.
EnrichmentSelection ==
    /\ Selected =>
         \A i \in 1..Len(store0.rows) :
            (\E n \in 1..Len(need) : need[n] = i)
                <=> /\ \E k \in MetricSet : store0.rows[i][k] = NULL
                    /\ Rank(i) <= max_to_enrich
    /\ \A n \in 1..(Len(need) - 1) : need[n] < need[n + 1]
    /\ \A e \in 1..Len(Fetched) :
         /\ \E k \in MetricSet : store0.rows[Fetched[e].idx][k] = NULL
         /\ Rank(Fetched[e].idx) <= max_to_enrich
         /\ \A f \in 1..Len(Fetched) : Fetched[f].idx = Fetched[e].idx => f = e

\* a row with impressions = 10 and the three other metrics missing was
\* selected and its detail page fetched, once
EnrichmentSelectionWitness ==
    /\ pc = "upload_posts"
    /\ \E e \in 1..Len(Fetched) :
         LET row == store0.rows[Fetched[e].idx] IN
         /\ row.impressions = 10
         /\ row.reactions = NULL /\ row.comments = NULL /\ row.reposts = NULL

\* the call of enrich_posts_metrics has returned
Enriched == pc = "upload_posts"

\* the detail-page request of fetch event e failed: an exception or a
\* non-200 status
FailedFetch(e) == e.page.status # "200"

\* C13: a selected record whose detail-page fetch failed holds, once
\* enrich_posts_metrics has returned, the four metric values it held before.
FailedFetchLeavesRecord ==
    Enriched =>
        \A e \in 1..Len(Fetched) :
            FailedFetch(Fetched[e])
                => \A k \in MetricSet :
                      posts_csv.rows[Fetched[e].idx][k] = store0.rows[Fetched[e].idx][k]

\* the file writes of the pass
Writes == SelectSeq(events, LAMBDA e : e.op = "to_csv")

\* fetch event e gave its record a metric value: one read on the page, or the
\* feed's like count standing in for reactions
Received(e) ==
    \/ \E k \in MetricSet : fetch_post_metrics(e.page)[k] # NULL
    \/ store0.rows[e.idx].total_likes # NULL

\* the number of selected records that received a metric value in this pass
ReceivedCount == Cardinality({n \in 1..Len(Fetched) : Received(Fetched[n])})

\* C16: enrich_posts_metrics rewrites the post store iff at least one selected
\* record received a metric value in this pass, and then once, with the
\* updated records; when no record needs enrichment, when every selected
\* record has an unusable link, or when no attempt gave a value, the store is
\* exactly as it was.
PersistOnlyOnChange ==
    /\ ~Enriched => Writes = <<>> /\ posts_csv = store0
    /\ Enriched =>
          /\ updated = ReceivedCount
          /\ IF ReceivedCount > 0
             THEN /\ Len(Writes) = 1
                  /\ posts_csv.rows = ToCsv(df)
             ELSE /\ Writes = <<>>
                  /\ posts_csv = store0

\* two records were selected, one with an unusable link and one whose detail
\* page was down and which has no like count: nothing was written
PersistOnlyOnChangeWitness ==
    /\ Enriched
    /\ Len(need) = 2
    /\ Len(Fetched) = 1
    /\ FailedFetch(Fetched[1])
    /\ store0.rows[Fetched[1].idx].total_likes = NULL
    /\ Writes = <<>>
    /\ posts_csv = store0

\* the requests and pauses of the pass, in order
Paces == SelectSeq(events, LAMBDA e : e.op \in {"fetch", "sleep"})

\* the selected rows the loop has handled so far
Handled == {need[n] : n \in 1..(pos - 1)}

\* C17: in enrich_posts_metrics the sleeps are as many as the detail-page
\* fetches: every fetch is followed at once by one sleep, whether or not it
\* gave data, so no two fetches are issued without a sleep between them; a
\* selected record whose link is missing, empty or does not start with
\* 'http' causes neither a fetch nor a sleep, every other one causes both.
EnrichmentPacing ==
    pc \in {"enrich_loop", "upload_posts"} =>
        /\ Len(Paces) = 2 * Len(Fetched)
        /\ \A n \in 1..Len(Fetched) :
              /\ Paces[2 * n - 1].op = "fetch"
              /\ Paces[2 * n].op = "sleep"
              /\ Paces[2 * n].idx = Paces[2 * n - 1].idx
        /\ {Fetched[n].idx : n \in 1..Len(Fetched)}
              = {i \in Handled : UsableUrl(store0.rows[i].article_link)}

\* of two selected records the first has the link 'xa' and the second an http
\* link whose detail page was down: one fetch, one sleep after it, both for
\* the second record
EnrichmentPacingWitness ==
    /\ Enriched
    /\ need = <<1, 2>>
    /\ ~UsableUrl(store0.rows[1].article_link)
    /\ store0.rows[1].article_link # NaN
    /\ Len(Paces) = 2
    /\ Paces[1].op = "fetch" /\ Paces[1].idx = 2 /\ FailedFetch(Paces[1])
    /\ Paces[2].op = "sleep" /\ Paces[2].idx = 2

----------------------------------------------------------------------------
(* The detail pages of the extraction study: one metric shows, in the        *)
(* visible text under its own word and under its synonym, and in the         *)
(* embedded data under its preferred key and under its synonym.  The store   *)
(* is one record without any metric and without a like count, so that the    *)
(* record holds after the pass exactly what fetch_post_metrics returned.     *)

\* what the text patterns capture: nothing, "0", "5"; "6" under the synonym
TextCounts == {NoMatch, Tok(<<"0">>), Tok(<<"5">>)}

TextSynonymCounts == {NoMatch, Tok(<<"6">>)}

\* what the patterns of the embedded data capture: nothing, "0", "7", and
\* "1.0.1", on which parse_int raises; "8" under the synonym
JsonCounts == {NoMatch, Tok(<<"0">>), Tok(<<"7">>), Tok(<<"1", ".", "0", ".", "1">>)}

JsonSynonymCounts == {NoMatch, Tok(<<"0">>), Tok(<<"8">>)}

ExtractPage(metric, tp, ts, jp, js) ==
    [status |-> "200",
     text |-> [p \in TextPatterns |->
                 IF p = PatternsOf(metric)[1] THEN tp
                 ELSE IF p = PatternsOf(metric)[Len(PatternsOf(metric))] THEN ts
                 ELSE NoMatch],
     json |-> [k \in JsonKeys |->
                 IF k = PreferredKey(metric) THEN jp
                 ELSE IF k = SynonymKey(metric) THEN js
                 ELSE NoMatch]]

ExtractPages ==
    {PageDown, PageRaise}
        \cup {ExtractPage(metric, tp, ts, jp, js) :
                 metric \in MetricSet, tp \in TextCounts, ts \in TextSynonymCounts,
                 jp \in JsonCounts, js \in JsonSynonymCounts}
        \cup {[ExtractPage("impressions", NoMatch, NoMatch, jp, NoMatch)
                  EXCEPT !.text["reactions"] = Tok(<<"5">>)] : jp \in JsonCounts}

InitFetch ==
    /\ NoParse
    /\ NoFollowers
    /\ NoFetch
    /\ pc = "enrich_posts_metrics"
    /\ error = ""
    /\ posts_csv = [link_col |-> TRUE, rows |-> <<BareRow(Http(1), NULL)>>]
    /\ store0 = posts_csv
    /\ NoEnrich
    /\ NoMain

NextFetch ==
    \/ EnrichPostsMetrics
    \/ EnrichRow(ExtractPages)

SpecFetch == InitFetch /\ [][NextFetch]_vars

\* the pass over the one record is over and its detail page was requested
FetchedOne == Enriched /\ Len(Fetched) = 1

\* phase 1: what the visible text gives for metric k
Phase1(page, k) == grab(page.text, PatternsOf(k))

\* a parse_int of phase 1, or of phase 2 when phase 2 runs, raises
ExtractionRaises(page) ==
    \/ \E k \in MetricSet : Phase1(page, k) = ValueError
    \/ /\ \E k \in MetricSet : Phase1(page, k) = NULL
       /\ \E key \in JsonKeys :
             ~page.json[key].none /\ parse_int(page.json[key]) = ValueError

\* C18: the mapping fetch_post_metrics returns holds for a metric the value
\* phase 1 found in the visible text, whatever the embedded data hold, and
\* the value of phase 2 only for a metric phase 1 left empty; a key it holds
\* has a non-null integer value; it is empty on a non-200 answer and on any
\* exception.
ExtractionCascade ==
    FetchedOne =>
        LET page == Fetched[1].page
            got == df[Fetched[1].idx]
        IN /\ \A k \in MetricSet : got[k] >= NULL
           /\ IF page.status # "200" \/ ExtractionRaises(page)
              THEN \A k \in MetricSet : got[k] = NULL
              ELSE \A k \in MetricSet :
                      IF Phase1(page, k) # NULL
                      THEN got[k] = Phase1(page, k)
                      ELSE got[k] = extract_from_json_blocks(page.json)[k]

\* the page shows "5 reactions" and its embedded data hold "reactions": 7 and
\* "likes": 8: the mapping holds reactions = 5 and nothing else
ExtractionCascadeWitness ==
    /\ FetchedOne
    /\ Fetched[1].page = ExtractPage("reactions", Tok(<<"5">>), NoMatch,
                                     Tok(<<"7">>), Tok(<<"8">>))
    /\ df[1].reactions = 5
    /\ df[1].impressions = NULL /\ df[1].comments = NULL /\ df[1].reposts = NULL

\* C19: in the embedded data the preferred key of a metric, when it is
\* matched, gives the metric's value, 0 included; the synonym is used only
\* when the preferred key is not matched.
SynonymPreference ==
    (FetchedOne /\ Fetched[1].page.status = "200"
        /\ ~ExtractionRaises(Fetched[1].page))
        => LET page == Fetched[1].page
               got == df[Fetched[1].idx]
           IN \A k \in MetricSet :
                 Phase1(page, k) = NULL
                    => got[k] = IF ~page.json[PreferredKey(k)].none
                                THEN parse_int(page.json[PreferredKey(k)])
                                ELSE IF ~page.json[SynonymKey(k)].none
                                     THEN parse_int(page.json[SynonymKey(k)])
                                     ELSE NULL

----------------------------------------------------------------------------
(* Runs of the post half of __main__ (lines 309-310): the merge, then the    *)
(* enrichment, over and over.                                                *)

Update(link, likes) == [article_link |-> link, total_likes |-> likes, other |-> 0]

\* the updates of the feed: the posts 1..MaxLinks, post 1 also with a like
\* count, and an update without a link
FeedUpdates ==
    {Update(Http(k), NULL) : k \in 1..MaxLinks}
        \cup {Update(Http(1), 7), Update(Absent, NULL)}

\* the update lists of a response: none, or one update
FeedLists == {<<>>} \cup {<<u>> : u \in FeedUpdates}

RunPages == {PageDown, PageReactions}

\* the locals of the fetch and of the enrichment as a call finds them
FreshLocals ==
    /\ attempt' = 1
    /\ shape' = 1
    /\ page_i' = 0
    /\ got_any' = FALSE
    /\ all_posts' = <<>>
    /\ calls' = <<>>
    /\ df' = <<>>
    /\ need' = <<>>
    /\ pos' = 1
    /\ updated' = 0
    /\ events' = <<>>

\* the next run begins with the files the last one left
NextPostsRun ==
    /\ pc = "upload_posts"
    /\ run_no < MaxRuns
    /\ run_no' = run_no + 1
    /\ pc' = "try_company_updates_calls"
    /\ store0' = posts_csv
    /\ FreshLocals
    /\ UNCHANGED <<parseVars, followerVars, error, posts_csv, max_to_enrich,
                   channel_summary_csv, now, followers>>

InitRuns ==
    /\ NoParse
    /\ NoFollowers
    /\ NoFetch
    /\ NoPosts
    /\ NoEnrich
    /\ NoMain
    /\ pc = "try_company_updates_calls"
    /\ error = ""

NextRuns ==
    \/ TryCompanyUpdatesCall(FeedLists)
    \/ PageCall(FeedLists)
    \/ SavePostsAppendDedupe
    \/ EnrichPostsMetrics
    \/ EnrichRow(RunPages)
    \/ NextPostsRun

SpecRuns == InitRuns /\ [][NextRuns]_vars

\* the links of the rows of a file
Links(file) ==
    {file.rows[i].article_link : i \in 1..Len(file.rows)} \ {NaN}

\* the links a list of updates carries
FeedLinks(posts) ==
    {posts[i].article_link : i \in 1..Len(posts)} \ {Absent, <<>>}

\* the merge of this run is over and the enrichment has not begun
Merged == pc = "enrich_posts_metrics"

\* the merge of this run is over
AfterMerge == pc \in {"enrich_posts_metrics", "enrich_loop", "upload_posts"}

\* C1: a metric a stored record holds is still held by the record of the same
\* link after a merge whose feed carries that link.
MetricPreservation ==
    Merged =>
        \A i \in 1..Len(store0.rows) : \A k \in MetricSet :
            LET old == store0.rows[i] IN
            (old[k] # NULL /\ old.article_link \in FeedLinks(all_posts))
                => \E j \in 1..Len(posts_csv.rows) :
                      /\ posts_csv.rows[j].article_link = old.article_link
                      /\ posts_csv.rows[j][k] = old[k]

\* C2: the persisted post store never holds two records with the same link.
KeyUniqueness ==
    \A i, j \in 1..Len(posts_csv.rows) :
        (i # j /\ posts_csv.rows[i].article_link # NaN)
            => posts_csv.rows[i].article_link # posts_csv.rows[j].article_link

\* the first run, no store yet: the feed carried one link twice (the single
\* call and page 0) and the merge has written the store
KeyUniquenessWitness ==
    /\ Merged
    /\ store0 = NoFile
    /\ Len(all_posts) = 2
    /\ all_posts[1].article_link = all_posts[2].article_link
    /\ all_posts[1].article_link \in Links(posts_csv)

\* C3: once the merge of a run is over, the links of the store are those it
\* held when the run began together with those the feed returned in this run.
NoPostLost ==
    AfterMerge => Links(posts_csv) = Links(store0) \cup FeedLinks(all_posts)

\* a later run: the store held post 1, the feed returned the new post 2 and
\* not post 1, the store holds both
NoPostLostWitness ==
    /\ pc = "upload_posts"
    /\ run_no > 1
    /\ Links(store0) = {Http(1)}
    /\ FeedLinks(all_posts) = {Http(2)}
    /\ Links(posts_csv) = {Http(1), Http(2)}

\* the feed fields of a row
FeedFields(row) == <<row.article_link, row.total_likes>>

\* the list of updates fetched is the list of the stored records
SameRecords ==
    /\ Len(all_posts) = Len(store0.rows)
    /\ \A i \in 1..Len(all_posts) :
         FeedFields(NewRow(all_posts[i])) = FeedFields(store0.rows[i])

\* C6: merging a store of unique links with a batch made of its own records
\* leaves the store as it was, up to order, metrics included.
MergeIdempotence ==
    (Merged /\ store0.rows # <<>> /\ SameRecords
        /\ Cardinality(Links(store0)) = Len(store0.rows))
        => {posts_csv.rows[i] : i \in 1..Len(posts_csv.rows)}
              = {store0.rows[i] : i \in 1..Len(store0.rows)}

----------------------------------------------------------------------------
(* Run after run over a store the feed adds nothing to: of each run only the *)
(* enrichment (line 310) changes the store.  The scheduler starts a run      *)
(* again and again, and every call returns.                                  *)

BackfillPages == {PageDown, PageReactions, PageFull}

\* the next run finds the store the last one left; runs are counted up to
\* MaxRuns
NextEnrichRun ==
    /\ pc = "upload_posts"
    /\ run_no' = IF run_no < MaxRuns THEN run_no + 1 ELSE run_no
    /\ pc' = "enrich_posts_metrics"
    /\ store0' = posts_csv
    /\ FreshLocals
    /\ UNCHANGED <<parseVars, followerVars, error, posts_csv, max_to_enrich,
                   channel_summary_csv, now, followers>>

NextBackfill ==
    \/ EnrichPostsMetrics
    \/ EnrichRow(BackfillPages)
    \/ NextEnrichRun

SpecBackfill == InitEnrich /\ [][NextBackfill]_vars /\ WF_vars(NextBackfill)

\* record i has a usable link and misses a metric
Incomplete(i) ==
    /\ i <= Len(posts_csv.rows)
    /\ UsableUrl(posts_csv.rows[i].article_link)
    /\ NeedsEnrichment(posts_csv.rows[i])

\* the detail page of record i is requested in the current run
FetchIssued(i) == \E n \in 1..Len(Fetched) : Fetched[n].idx = i

\* C20: over an unbounded sequence of runs every record that has a usable
\* link and misses a metric is eventually issued a detail-page fetch.
EnrichmentProgress ==
    \A i \in 1..MaxRows : Incomplete(i) ~> FetchIssued(i)

\* the number of rows that have no link
LinkLess(rows) == Cardinality({i \in 1..Len(rows) : rows[i].article_link = NaN})

\* the number of updates that have no link
LinkLessUpdates(posts) ==
    Cardinality({i \in 1..Len(posts) : posts[i].article_link = Absent})

\* C11: a merge retains every record without a link: the merged store holds
\* as many link-less records as the store before and the feed together; none
\* is removed as the duplicate of another.
LinkLessRetained ==
    (Merged /\ all_posts # <<>>)
        => LinkLess(posts_csv.rows)
              = LinkLess(store0.rows) + LinkLessUpdates(all_posts)

----------------------------------------------------------------------------
(* __main__, src/main.py:301-316, and the functions it calls that are not    *)
(* modelled above: fetch_followers, append_followers_row and                 *)
(* build_channel_summary.  The uploaded copies live in the storage service   *)
(* and are not part of the state; an upload shows in whether it raises.      *)

\* fetch_followers (lines 57-68) on a response [status, token], token being
\* what the pattern of line 67 captures: the count, NULL for None, ValueError
\* when parse_int raises, "RequestException" when requests.get raises
fetch_followers(page) ==
    IF page.status # "200" \/ page.token.none THEN NULL
    ELSE parse_int(page.token)

\* append_followers_row opening the file with mode "w": the earlier rows go
append_followers_row_w(log, count, t) ==
    <<[timestamp |-> t, followers |-> count]>>

\* append_followers_row (lines 70-79): mode "a", one row at the end
append_followers_row(log, count, t) ==
    Append(log, [timestamp |-> t, followers |-> count])

\* lines 304-307 of __main__
FetchFollowers(Pages) ==
    /\ pc = "fetch_followers"
    /\ \E page \in Pages :
         IF page.status = "raise"
         THEN /\ pc' = "crashed"
              /\ error' = "RequestException"
              /\ UNCHANGED <<followers, followers_csv>>
         ELSE LET count == fetch_followers(page) IN
              IF count = ValueError
              THEN /\ pc' = "crashed"
                   /\ error' = "ValueError"
                   /\ UNCHANGED <<followers, followers_csv>>
              ELSE /\ followers' = count
                   /\ IF count = NULL
                      THEN /\ pc' = "try_company_updates_calls"
                           /\ UNCHANGED <<error, followers_csv>>
                      ELSE /\ followers_csv' = append_followers_row(followers_csv, count, now)
                           /\ \E resp \in HttpOutcomes :
                                LET e == upload_csv_to_supabase(TRUE, resp) IN
                                /\ error' = e
                                /\ pc' = IF e = "" THEN "try_company_updates_calls"
                                         ELSE "crashed"
    /\ UNCHANGED <<parseVars, followers_daily_csv, fetchVars, posts_csv, store0,
                   enrichVars, channel_summary_csv, now, run_no>>

\* line 311 of __main__: upload_csv_to_supabase(POSTS_CSV)
UploadPosts ==
    /\ pc = "upload_posts"
    /\ \E resp \in HttpOutcomes :
         LET e == upload_csv_to_supabase(posts_csv.rows # <<>>, resp) IN
         /\ error' = e
         /\ pc' = IF e = "" THEN "build_followers_daily" ELSE "crashed"
    /\ UNCHANGED <<parseVars, followerVars, fetchVars, posts_csv, store0,
                   enrichVars, mainVars>>

\* pd.to_numeric(column, errors="coerce").fillna(0).sum(), lines 286 and 288
RECURSIVE SumOf(_, _)
SumOf(rows, col) ==
    IF rows = <<>> THEN 0
    ELSE (IF rows[1][col] = NULL THEN 0 ELSE rows[1][col]) + SumOf(Tail(rows), col)

\* lines 273-296: the one row of the summary
ChannelSummary(daily, posts) ==
    [total_followers |-> IF daily = <<>> THEN 0 ELSE daily[Len(daily)].followers,
     new_followers |-> IF daily = <<>> THEN 0 ELSE daily[Len(daily)].new_followers,
     post_shares |-> SumOf(posts.rows, "reposts"),
     post_impressions |-> SumOf(posts.rows, "impressions")]

\* build_channel_summary (lines 267-298), and line 316
BuildChannelSummary ==
    /\ pc = "build_channel_summary"
    /\ channel_summary_csv' = <<ChannelSummary(followers_daily_csv, posts_csv)>>
    /\ \E resp \in HttpOutcomes :
         LET e == upload_csv_to_supabase(TRUE, resp) IN
         /\ error' = e
         /\ pc' = IF e = "" THEN "done" ELSE "crashed"
    /\ UNCHANGED <<parseVars, followerVars, fetchVars, posts_csv, store0,
                   enrichVars, now, run_no, followers>>

\* the scheduler starts the program again, later, whether or not the last run
\* ended in an exception
NewRun ==
    /\ pc \in {"done", "crashed"}
    /\ run_no < MaxRuns
    /\ run_no' = run_no + 1
    /\ \E dt \in {1, TicksPerDay} : now' = now + dt
    /\ pc' = "fetch_followers"
    /\ error' = ""
    /\ followers' = NotRun
    /\ store0' = posts_csv
    /\ FreshLocals
    /\ UNCHANGED <<parseVars, followerVars, posts_csv, max_to_enrich,
                   channel_summary_csv>>

\* the company page: unreachable, refused, without a count, with "100
\* followers", with "1.1k followers", with "1.0.1 followers"
FollowerPages ==
    {[status |-> "raise", token |-> NoMatch], [status |-> "500", token |-> NoMatch],
     [status |-> "200", token |-> NoMatch],
     [status |-> "200", token |-> Tok(<<"1", "0", "0">>)],
     [status |-> "200", token |-> Tok(<<"1", ".", "1", "k">>)],
     [status |-> "200", token |-> Tok(<<"1", ".", "0", ".", "1">>)]}

MainFeedLists == {<<>>, <<Update(Http(1), NULL)>>}

MainPages == {PageDown, PageRaise, PageFull}

Init ==
    /\ NoParse
    /\ NoFollowers
    /\ NoFetch
    /\ NoPosts
    /\ NoEnrich
    /\ NoMain
    /\ pc = "fetch_followers"
    /\ error = ""

Next ==
    \/ FetchFollowers(FollowerPages)
    \/ TryCompanyUpdatesCall(MainFeedLists)
    \/ PageCall(MainFeedLists)
    \/ SavePostsAppendDedupe
    \/ EnrichPostsMetrics
    \/ EnrichRow(MainPages)
    \/ UploadPosts
    \/ BuildFollowersDaily
    \/ BuildChannelSummary
    \/ NewRun

Spec == Init /\ [][Next]_vars

\* C12: the follower log is append-only: a step changes it only by appending,
\* at the fetch of a run that read a count, one row holding that count and the
\* time of the run; every other step, and a fetch that gave null or failed,
\* leaves every row as it was; so there is at most one row per run and the
\* rows are in the order of the runs.
FollowerLogAppendOnly ==
    /\ [](Len(followers_csv) <= run_no /\ Chronological(followers_csv))
    /\ [][IF pc = "fetch_followers" /\ followers' >= 0
          THEN followers_csv' = Append(followers_csv, [timestamp |-> now,
                                                       followers |-> followers'])
          ELSE followers_csv' = followers_csv]_vars

\* the second run read a count and its row stands after the row of the first
FollowerLogAppendOnlyWitness ==
    /\ run_no = 2
    /\ pc = "try_company_updates_calls"
    /\ Len(followers_csv) = 2
    /\ followers = followers_csv[2].followers
    /\ followers_csv[2].timestamp = now
    /\ followers_csv[1].timestamp < now

\* C4: no transport error or refusal of the scraping proxy or of the storage
\* service, at any call of a run, ends the run: none is raised to the top.
CollaboratorFailuresNotFatal == error # "RequestException"

\* C5: a store file that does not exist yet is no error in any phase of a run.
AbsentStoreNotAnError == error # "FileNotFoundError"

====
